---- MODULE Spec2Model ----
(***************************************************************************)
(* github-release-packager: the default plugin's version normalisation     *)
(* (lib/grp-plugin-default.js) and the package / binary updater (index.js).*)
(*                                                                         *)
(* A JavaScript string is a sequence of one-character strings, so that     *)
(* split, replace, trim, parseInt and join are computed character by       *)
(* character.                                                              *)
(***************************************************************************)
EXTENDS Integers, Sequences, FiniteSets, TLC

\* ------------------------------------------------------------------ bounds
\* Longest tail appended to a stem to form an input string.
MaxLen == 4

\* ------------------------------------------------------------- characters
DigitChars == <<"0", "1", "2", "3", "4", "5", "6", "7", "8", "9">>
Digits == {DigitChars[i] : i \in 1..Len(DigitChars)}
Letters ==
  {"a", "b", "c", "d", "e", "f", "g", "h", "i", "j", "k", "l", "m", "n", "o",
   "p", "q", "r", "s", "t", "u", "v", "w", "x", "y", "z",
   "A", "B", "C", "D", "E", "F", "G", "H", "I", "J", "K", "L", "M", "N", "O",
   "P", "Q", "R", "S", "T", "U", "V", "W", "X", "Y", "Z"}
WhiteSpace == {" ", "\t", "\n", "\r"}

Min(a, b) == IF a < b THEN a ELSE b

\* ------------------------------------------------- JavaScript primitives
\* Index of the first occurrence of c in s, 0 when there is none.
IndexOf(s, c) ==
  IF \E i \in 1..Len(s) : s[i] = c
    THEN CHOOSE i \in 1..Len(s) : s[i] = c /\ \A j \in 1..(i - 1) : s[j] # c
    ELSE 0

\* String.prototype.split(separator): every piece, empty ones included.
RECURSIVE Split(_, _)
Split(s, c) ==
  LET i == IndexOf(s, c)
  IN IF i = 0
       THEN <<s>>
       ELSE <<SubSeq(s, 1, i - 1)>> \o Split(SubSeq(s, i + 1, Len(s)), c)

\* String.prototype.split(separator, limit): the string is split at EVERY
\* separator and the first `limit` pieces are kept; the rest is dropped.
SplitLimit(s, c, limit) ==
  LET all == Split(s, c)
  IN SubSeq(all, 1, Min(limit, Len(all)))

\* String.prototype.trim().
RECURSIVE TrimStart(_)
TrimStart(s) ==
  IF Len(s) > 0 /\ s[1] \in WhiteSpace THEN TrimStart(Tail(s)) ELSE s

RECURSIVE TrimEnd(_)
TrimEnd(s) ==
  IF Len(s) > 0 /\ s[Len(s)] \in WhiteSpace
    THEN TrimEnd(SubSeq(s, 1, Len(s) - 1))
    ELSE s

Trim(s) == TrimEnd(TrimStart(s))

\* Number.prototype.toString() of a non-negative integer.
RECURSIVE NatToStr(_)
NatToStr(n) ==
  IF n < 10
    THEN <<DigitChars[n + 1]>>
    ELSE NatToStr(n \div 10) \o <<DigitChars[(n % 10) + 1]>>

\* Value of a digit character in the given radix, -1 when it is no digit of it.
HexChars == <<"a", "b", "c", "d", "e", "f">>
HexCharsUpper == <<"A", "B", "C", "D", "E", "F">>
DigitValue(c, radix) ==
  LET v == IF c \in Digits
             THEN (CHOOSE i \in 1..10 : DigitChars[i] = c) - 1
             ELSE IF \E i \in 1..6 : HexChars[i] = c \/ HexCharsUpper[i] = c
               THEN 9 + (CHOOSE i \in 1..6 : HexChars[i] = c \/ HexCharsUpper[i] = c)
               ELSE -1
  IN IF v < radix THEN v ELSE -1

\* The longest prefix of s made of digits of the radix, as a number;
\* acc is the value read so far, seen whether a digit was read.
RECURSIVE ReadDigits(_, _, _, _)
ReadDigits(s, radix, acc, seen) ==
  IF Len(s) > 0 /\ DigitValue(s[1], radix) >= 0
    THEN ReadDigits(Tail(s), radix, acc * radix + DigitValue(s[1], radix), TRUE)
    ELSE [nan |-> ~seen, val |-> acc]

\* parseInt(string) without a radix: leading white space is skipped, a sign
\* is read, a 0x / 0X prefix selects radix 16, then the longest digit prefix
\* is read; NaN when no digit was read.  neg keeps the sign (also of -0).
ParseInt(part) ==
  LET s0 == TrimStart(part)
      neg == Len(s0) > 0 /\ s0[1] = "-"
      s1 == IF Len(s0) > 0 /\ s0[1] \in {"-", "+"} THEN Tail(s0) ELSE s0
      hex == Len(s1) >= 2 /\ s1[1] = "0" /\ s1[2] \in {"x", "X"}
      s2 == IF hex THEN SubSeq(s1, 3, Len(s1)) ELSE s1
      r == ReadDigits(s2, IF hex THEN 16 ELSE 10, 0, FALSE)
  IN [nan |-> r.nan, neg |-> neg, val |-> r.val]

\* Array.prototype.join(separator) of an array of strings.
RECURSIVE Join(_, _)
Join(strs, sep) ==
  IF Len(strs) = 0 THEN <<>>
  ELSE IF Len(strs) = 1 THEN strs[1]
  ELSE strs[1] \o sep \o Join(Tail(strs), sep)

\* ------------------------------------------------------- the semver package
\* semver's strict grammar (its regular expression FULL):
\*   v? NUM . NUM . NUM ( - PREID ( . PREID )* )? ( + BUILDID ( . BUILDID )* )?
IsNumericIdentifier(t) ==
  /\ Len(t) > 0
  /\ \A i \in 1..Len(t) : t[i] \in Digits
  /\ (Len(t) = 1 \/ t[1] # "0")

IsBuildIdentifier(t) ==
  /\ Len(t) > 0
  /\ \A i \in 1..Len(t) : t[i] \in Digits \cup Letters \cup {"-"}

IsPrereleaseIdentifier(t) ==
  \/ IsNumericIdentifier(t)
  \/ (IsBuildIdentifier(t) /\ \E i \in 1..Len(t) : t[i] \notin Digits)

\* The match of FULL against s: the first '+' starts the build metadata, the
\* first '-' before it starts the prerelease, what is left is the main version.
SemverMatch(s) ==
  LET body == IF Len(s) > 0 /\ s[1] = "v" THEN Tail(s) ELSE s
      plus == IndexOf(body, "+")
      noBuild == IF plus = 0 THEN body ELSE SubSeq(body, 1, plus - 1)
      build == IF plus = 0 THEN <<>> ELSE SubSeq(body, plus + 1, Len(body))
      dash == IndexOf(noBuild, "-")
      main == IF dash = 0 THEN noBuild ELSE SubSeq(noBuild, 1, dash - 1)
      pre == IF dash = 0 THEN <<>> ELSE SubSeq(noBuild, dash + 1, Len(noBuild))
      mainIds == Split(main, ".")
      preIds == Split(pre, ".")
      buildIds == Split(build, ".")
  IN [ok |-> /\ Len(mainIds) = 3
             /\ \A i \in 1..3 : IsNumericIdentifier(mainIds[i])
             /\ (dash # 0 => \A i \in 1..Len(preIds) : IsPrereleaseIdentifier(preIds[i]))
             /\ (plus # 0 => \A i \in 1..Len(buildIds) : IsBuildIdentifier(buildIds[i])),
      main |-> main,
      hasPre |-> dash # 0,
      pre |-> pre]

\* semver.valid(version, options): null (ok = FALSE) when the string does not
\* parse, otherwise the parsed version's `version` field, which SemVer.format()
\* builds from major.minor.patch and the prerelease only: a leading 'v' and the
\* build metadata are not part of it.  semver ^7.1.3 resolves to releases that
\* test the string as given and to later ones that trim it first; `trims`
\* says which one is installed.
SemverValid(version, trims) ==
  LET m == SemverMatch(IF trims THEN Trim(version) ELSE version)
  IN [ok |-> m.ok,
      version |-> IF m.ok
                    THEN m.main \o (IF m.hasPre THEN <<"-">> \o m.pre ELSE <<>>)
                    ELSE <<>>]

\* semver's precedence --------------------------------------------------------
\* The characters of identifiers in code-unit order (for the < of strings).
CodeOrder ==
  <<"-", "0", "1", "2", "3", "4", "5", "6", "7", "8", "9",
    "A", "B", "C", "D", "E", "F", "G", "H", "I", "J", "K", "L", "M", "N", "O",
    "P", "Q", "R", "S", "T", "U", "V", "W", "X", "Y", "Z",
    "a", "b", "c", "d", "e", "f", "g", "h", "i", "j", "k", "l", "m", "n", "o",
    "p", "q", "r", "s", "t", "u", "v", "w", "x", "y", "z">>

CodeOf(c) == CHOOSE i \in 1..Len(CodeOrder) : CodeOrder[i] = c

\* a < b of two JavaScript strings.
RECURSIVE StringLess(_, _)
StringLess(a, b) ==
  IF Len(b) = 0 THEN FALSE
  ELSE IF Len(a) = 0 THEN TRUE
  ELSE IF a[1] # b[1] THEN CodeOf(a[1]) < CodeOf(b[1])
  ELSE StringLess(Tail(a), Tail(b))

AllDigits(t) == Len(t) > 0 /\ \A i \in 1..Len(t) : t[i] \in Digits

ToNumber(t) == ReadDigits(t, 10, 0, FALSE).val

\* semver's compareIdentifiers: -1, 0 or 1.
CompareIdentifiers(a, b) ==
  LET anum == AllDigits(a)
      bnum == AllDigits(b)
  IN IF anum /\ bnum
       THEN IF ToNumber(a) = ToNumber(b) THEN 0
            ELSE IF ToNumber(a) < ToNumber(b) THEN -1 ELSE 1
       ELSE IF a = b THEN 0
       ELSE IF anum /\ ~bnum THEN -1
       ELSE IF bnum /\ ~anum THEN 1
       ELSE IF StringLess(a, b) THEN -1 ELSE 1

\* SemVer.compareMain on the three numbers of each version.
RECURSIVE CompareMain(_, _, _)
CompareMain(a, b, i) ==
  IF i > 3 THEN 0
  ELSE IF CompareIdentifiers(a[i], b[i]) # 0 THEN CompareIdentifiers(a[i], b[i])
  ELSE CompareMain(a, b, i + 1)

\* SemVer.comparePre on the prerelease identifiers of each version.
RECURSIVE ComparePreFrom(_, _, _)
ComparePreFrom(a, b, i) ==
  IF i > Len(a) /\ i > Len(b) THEN 0
  ELSE IF i > Len(b) THEN 1
  ELSE IF i > Len(a) THEN -1
  ELSE IF CompareIdentifiers(a[i], b[i]) = 0 THEN ComparePreFrom(a, b, i + 1)
  ELSE CompareIdentifiers(a[i], b[i])

ComparePre(a, b) ==
  IF Len(a) > 0 /\ Len(b) = 0 THEN -1
  ELSE IF Len(a) = 0 /\ Len(b) > 0 THEN 1
  ELSE ComparePreFrom(a, b, 1)

\* The fields of the SemVer object of a string the strict grammar accepts.
SemverFields(s) ==
  LET m == SemverMatch(s)
  IN [main |-> Split(m.main, "."),
      pre |-> IF m.hasPre THEN Split(m.pre, ".") ELSE <<>>]

\* semver.lt(a, b) of two valid versions.
SemverLt(a, b) ==
  LET x == SemverFields(a)
      y == SemverFields(b)
      main == CompareMain(x.main, y.main, 1)
  IN (IF main # 0 THEN main ELSE ComparePre(x.pre, y.pre)) < 0


\* ------------------------------------------------------- the default plugin
\* A section part: a number or a string (typeof part === 'number').
NumPart(n) == [isNum |-> TRUE, n |-> n, s |-> <<>>]
StrPart(s) == [isNum |-> FALSE, n |-> 0, s |-> s]

\* String(part), as Array.prototype.join applies it.
PartToString(p) == IF p.isNum THEN NatToStr(p.n) ELSE p.s

JoinParts(parts, sep) ==
  Join([i \in 1..Len(parts) |-> PartToString(parts[i])], sep)

\* GetSectionString that removes what the pattern does not let through.
GetSectionStringRemoving(section) ==
  SelectSeq(section, LAMBDA c : c \in Digits \cup Letters \cup {"-", "."})

\* GetSectionString: section.replace(/[^0-9a-zA-Z-\.]/g, '.').
GetSectionString(section) ==
  [i \in 1..Len(section) |->
     IF section[i] \in Digits \cup Letters \cup {"-", "."}
       THEN section[i]
       ELSE "."]

\* The forEach callback of ParseSection applied to pArr[pIdx] and onward
\* (pIdx counts from 1 here, from 0 in the code).
RECURSIVE ParseParts(_, _)
ParseParts(pArr, pIdx) ==
  IF pIdx > Len(pArr) THEN <<>>
  ELSE
    LET part == pArr[pIdx]
        num == ParseInt(part)
        pushed ==
          IF Trim(part) = <<>>
            THEN IF pIdx < Len(pArr) THEN <<NumPart(0)>> ELSE <<>>
            ELSE IF ~num.nan /\ (~num.neg \/ num.val = 0)
              THEN <<NumPart(num.val)>>
              ELSE <<StrPart(part)>>
    IN pushed \o ParseParts(pArr, pIdx + 1)

\* ParseSection that gives 0 for an empty last token as well.
ParseSectionKeepLast(section) ==
  LET pArr == Split(GetSectionString(section), ".")
  IN ParseParts(pArr, 1)
       \o (IF pArr[Len(pArr)] = <<>> THEN <<NumPart(0)>> ELSE <<>>)

ParseSection(section) == ParseParts(Split(GetSectionString(section), "."), 1)

\* ParseVersion of a string (the type check of line 121 cannot fail for one).
ParseVersion(version) ==
  LET first == SplitLimit(version, "-", 2)
      second == IF Len(first) > 1 THEN SplitLimit(first[2], "+", 2) ELSE first
  IN [Release |-> ParseSection(first[1]),
      Prerelease |-> IF Len(first) > 1 THEN ParseSection(second[1]) ELSE <<>>,
      BuildMetadata |-> IF Len(second) > 1 THEN ParseSection(second[2]) ELSE <<>>]

\* getSemver, line 34-40.
FirstThreeVersionPartsAreDigits(release) ==
  \A vIdx \in 1..Min(Len(release), 3) : release[vIdx].isNum

\* ReleaseString with only one '.0' ever appended.
ReleaseStringOnePad(release) ==
  IF FirstThreeVersionPartsAreDigits(release)
    THEN JoinParts(SubSeq(release, 1, Min(Len(release), 3)), <<".">>)
         \o (IF Len(release) < 3 THEN <<".", "0">> ELSE <<>>)
         \o (IF Len(release) > 3
               THEN <<"-">> \o JoinParts(SubSeq(release, 4, Len(release)), <<".">>)
               ELSE <<>>)
    ELSE <<"0", ".", "0", ".", "0">>
         \o (IF Len(release) > 0 THEN <<"-">> \o JoinParts(release, <<".">>) ELSE <<>>)

\* ReleaseString with the overflow taken from slice(4) instead of slice(3).
ReleaseStringLateSlice(release) ==
  IF FirstThreeVersionPartsAreDigits(release)
    THEN JoinParts(SubSeq(release, 1, Min(Len(release), 3)), <<".">>)
         \o (IF Len(release) < 3 THEN <<".", "0">> ELSE <<>>)
         \o (IF Len(release) < 2 THEN <<".", "0">> ELSE <<>>)
         \o (IF Len(release) > 3
               THEN <<"-">> \o JoinParts(SubSeq(release, 5, Len(release)), <<".">>)
               ELSE <<>>)
    ELSE <<"0", ".", "0", ".", "0">>
         \o (IF Len(release) > 0 THEN <<"-">> \o JoinParts(release, <<".">>) ELSE <<>>)

\* ReleaseString with only the parts from index 3 kept after 0.0.0.
ReleaseStringTailOnly(release) ==
  IF FirstThreeVersionPartsAreDigits(release)
    THEN JoinParts(SubSeq(release, 1, Min(Len(release), 3)), <<".">>)
         \o (IF Len(release) < 3 THEN <<".", "0">> ELSE <<>>)
         \o (IF Len(release) < 2 THEN <<".", "0">> ELSE <<>>)
         \o (IF Len(release) > 3
               THEN <<"-">> \o JoinParts(SubSeq(release, 4, Len(release)), <<".">>)
               ELSE <<>>)
    ELSE <<"0", ".", "0", ".", "0">>
         \o (IF Len(release) > 3
               THEN <<"-">> \o JoinParts(SubSeq(release, 4, Len(release)), <<".">>)
               ELSE <<>>)

\* ReleaseString with the missing components put in front.
ReleaseStringPadFront(release) ==
  IF FirstThreeVersionPartsAreDigits(release)
    THEN (IF Len(release) < 3 THEN <<"0", ".">> ELSE <<>>)
         \o (IF Len(release) < 2 THEN <<"0", ".">> ELSE <<>>)
         \o JoinParts(SubSeq(release, 1, Min(Len(release), 3)), <<".">>)
         \o (IF Len(release) > 3
               THEN <<"-">> \o JoinParts(SubSeq(release, 4, Len(release)), <<".">>)
               ELSE <<>>)
    ELSE <<"0", ".", "0", ".", "0">>
         \o (IF Len(release) > 0 THEN <<"-">> \o JoinParts(release, <<".">>) ELSE <<>>)

\* ReleaseString with the overflow appended as build metadata.
ReleaseStringOverflowAsBuild(release) ==
  IF FirstThreeVersionPartsAreDigits(release)
    THEN JoinParts(SubSeq(release, 1, Min(Len(release), 3)), <<".">>)
         \o (IF Len(release) < 3 THEN <<".", "0">> ELSE <<>>)
         \o (IF Len(release) < 2 THEN <<".", "0">> ELSE <<>>)
         \o (IF Len(release) > 3
               THEN <<"+">> \o JoinParts(SubSeq(release, 4, Len(release)), <<".">>)
               ELSE <<>>)
    ELSE <<"0", ".", "0", ".", "0">>
         \o (IF Len(release) > 0 THEN <<"-">> \o JoinParts(release, <<".">>) ELSE <<>>)

\* getSemver, line 41-57: the release group.
ReleaseString(release) ==
  IF FirstThreeVersionPartsAreDigits(release)
    THEN JoinParts(SubSeq(release, 1, Min(Len(release), 3)), <<".">>)
         \o (IF Len(release) < 3 THEN <<".", "0">> ELSE <<>>)
         \o (IF Len(release) < 2 THEN <<".", "0">> ELSE <<>>)
         \o (IF Len(release) > 3
               THEN <<"-">> \o JoinParts(SubSeq(release, 4, Len(release)), <<".">>)
               ELSE <<>>)
    ELSE <<"0", ".", "0", ".", "0">>
         \o (IF Len(release) > 0 THEN <<"-">> \o JoinParts(release, <<".">>) ELSE <<>>)

\* PrereleaseString without the length test.
PrereleaseStringAlways(prerelease) ==
  <<"-">> \o JoinParts(prerelease, <<".">>)

\* getSemver, line 59-61.
PrereleaseString(prerelease) ==
  IF Len(prerelease) > 0 THEN <<"-">> \o JoinParts(prerelease, <<".">>) ELSE <<>>

\* getSemver, line 63-65.
BuildMetadataString(buildMetadata) ==
  IF Len(buildMetadata) > 0 THEN <<"+">> \o JoinParts(buildMetadata, <<".">>) ELSE <<>>

\* getSemver, line 34-67: the string built from the parsed sections.
Synthesize(sections) ==
  ReleaseString(sections.Release)
    \o PrereleaseString(sections.Prerelease)
    \o BuildMetadataString(sections.BuildMetadata)

\* RejectsVersion without the trim.
RejectsVersionNoTrim(version) ==
  version.type # "string" \/ version.str = <<>>

\* getSemver, line 22: the argument is refused.
RejectsVersion(version) ==
  version.type # "string" \/ Trim(version.str) = <<>>

\* -------------------------------------------------------------- the inputs
\* Characters the input strings are drawn from: digits (with the leading-zero
\* case), a letter (which is also semver's optional prefix), the three
\* delimiters and a white-space character.
InputChars == {"0", "1", "v", ".", "-", "+", " "}

\* Beginnings of version strings; a tail of up to MaxLen characters follows.
Stems ==
  { <<>>,
    <<"1", ".", "1">>,
    <<"1", ".", "1", ".", "1">>,
    <<"1", ".", "1", "-", "v">> }

Tails == UNION {[1..n -> InputChars] : n \in 0..MaxLen}

StringValue(s) == [type |-> "string", str |-> s]

\* The arguments getSemver is called with: strings, undefined and a number.
Versions ==
  {StringValue(st \o tl) : st \in Stems, tl \in Tails}
    \cup {[type |-> "undefined", str |-> <<>>], [type |-> "number", str |-> <<>>]}

NoSections == [Release |-> <<>>, Prerelease |-> <<>>, BuildMetadata |-> <<>>]

\* ------------------------------------------------------------------ state
VARIABLES
  semverTrims,   \* the installed semver release trims before matching
  input,         \* the argument of the first getSemver call
  version,       \* the argument of the current getSemver call
  pc,            \* "call", "parsing" (awaiting ParseVersion), "done", "failed"
  sections,      \* the value ParseVersion resolved with
  result,        \* the string the current call resolved with
  round,         \* 1: first call, 2: call on the first call's result
  firstResult,   \* what the first call resolved with
  validCalls,    \* calls of semver.valid in the current getSemver call
  parseCalls     \* calls of ParseVersion in the current getSemver call

semverVars ==
  <<input, version, pc, sections, result, round, firstResult,
    validCalls, parseCalls>>

VARIABLES
  pkgExists,     \* the package file exists
  pkg,           \* its content: version, grp.repository, pack scripts, executables
  npmIgnore,     \* .npmignore: "absent", "other" (no bin.bak line), "binbak"
  binFolder,     \* the names of the entries of the bin folder
  extracted,     \* the release tags whose bin/<tag> holds extracted binaries
  tempFolders,   \* the temporary download folders that exist
  upc,           \* "idle", "awaitLatest", "awaitDownload", "awaitProcess"
  ufn,           \* the function called: "UpdatePackage" or "UpdateBinary"
  uop,           \* options.operation as getPackage left it
  uoptions,      \* options.operation as the caller gave it
  utag,          \* the release tag the call works on (<<>>: not known yet)
  uout,          \* how the last call ended: "none", "ok" or the error
  requests,      \* latest-release requests sent by the current call
  downloads,     \* download requests sent by the current call
  atCall,        \* the files and folders as they were when the call began
  runs,          \* calls begun so far
  ugiven,        \* the plugin argument of the call
  uplugin,       \* the plugin getPlugin returned: whose function each callback is
  semverBy,      \* whose getSemver UpdatePackage called: "none", "own", "default"
  latestNPM,     \* what that getSemver resolved with
  ubin           \* what postProcess resolved with, and the working directory

files == <<pkgExists, pkg, npmIgnore, binFolder, extracted, tempFolders>>

updateVars ==
  <<pkgExists, pkg, npmIgnore, binFolder, extracted, tempFolders, upc, ufn, uop, uoptions,
    utag, uout, requests, downloads, atCall, runs, ugiven, uplugin, semverBy,
    latestNPM, ubin>>

VARIABLES
  pair,          \* two plain releases, a and b
  semvers,       \* what getSemver resolved with for each
  opc,           \* "idle", "a", "b", "done"
  lookup,        \* the arguments of GetExecutable, process.platform and .arch
  executablePath, \* what GetExecutable resolved with
  epc            \* "idle", "call", "done"

orderVars == <<pair, semvers, opc>>

lookupVars == <<lookup, executablePath, epc>>

VARIABLES
  section,       \* the argument of GetSectionString
  sectionStrings, \* what the calls of GetSectionString resolved with, in order
  gpc            \* "idle", "call", "again", "done", "failed"

sanitizeVars == <<section, sectionStrings, gpc>>

VARIABLES
  copyArgs,      \* the arguments of copyPaths: pathKind and object
  copied,        \* what copyPaths returned, or that it threw
  cpc            \* "idle", "call", "done"

copyVars == <<copyArgs, copied, cpc>>

pureVars == <<orderVars, lookupVars, sanitizeVars, copyVars>>

vars == <<semverTrims, semverVars, updateVars, pureVars>>

InitSemver ==
  /\ semverTrims \in BOOLEAN
  /\ input \in Versions
  /\ version = input
  /\ pc = "call"
  /\ sections = NoSections
  /\ result = <<>>
  /\ round = 1
  /\ firstResult = <<>>
  /\ validCalls = 0
  /\ parseCalls = 0

\* getSemver up to its first await: the argument check (line 22-24), the
\* fast path (line 26-29) and the call of ParseVersion (line 32).
GetSemverEnter ==
  /\ pc = "call"
  /\ IF RejectsVersion(version)
       THEN /\ pc' = "failed"
            /\ UNCHANGED <<sections, result, validCalls, parseCalls>>
       ELSE LET valid == SemverValid(version.str, semverTrims)
            IN /\ validCalls' = validCalls + 1
               /\ IF valid.ok
                    THEN /\ pc' = "done"
                         /\ result' = valid.version
                         /\ UNCHANGED <<sections, parseCalls>>
                    ELSE /\ pc' = "parsing"
                         /\ sections' = ParseVersion(version.str)
                         /\ parseCalls' = parseCalls + 1
                         /\ UNCHANGED result
  /\ UNCHANGED <<semverTrims, input, version, round, firstResult, updateVars,
                 pureVars>>

\* getSemver after ParseVersion resolved (line 34-67).
GetSemverResume ==
  /\ pc = "parsing"
  /\ result' = Synthesize(sections)
  /\ pc' = "done"
  /\ UNCHANGED <<semverTrims, input, version, sections, round, firstResult,
                 validCalls, parseCalls, updateVars,
                 pureVars>>

\* The caller passes the version it got to getSemver again.
GetSemverAgain ==
  /\ pc = "done"
  /\ round = 1
  /\ round' = 2
  /\ firstResult' = result
  /\ version' = StringValue(result)
  /\ pc' = "call"
  /\ sections' = NoSections
  /\ result' = <<>>
  /\ validCalls' = 0
  /\ parseCalls' = 0
  /\ UNCHANGED <<semverTrims, input, updateVars, pureVars>>

NextSemver ==
  \/ GetSemverEnter
  \/ GetSemverResume
  \/ GetSemverAgain

\* ------------------------------------------------------------ the updater
\* exports.UpdateOperation.
OperationDefault == 0
OperationCheckonly == 1
OperationForce == 2

\* Calls begun in one behaviour.
MaxRuns == 2

\* options.operation as the caller gives it: a number, or nothing (NaN).
Operations ==
  {[isNaN |-> FALSE, value |-> n] :
     n \in {OperationDefault, OperationCheckonly, OperationForce}}
    \cup {[isNaN |-> TRUE, value |-> 0]}

\* The tags of the releases the repository may report as its latest.
Tags ==
  { <<"1", ".", "1">>,
    <<"1", ".", "1", ".", "1">>,
    <<"1", ".", "1", ".", "1", ".", "1">>,
    <<"-", "1">> }

\* The versions the package file may hold at the start.
PackageVersions ==
  { <<"1", ".", "0", ".", "0">>, <<"1", ".", "1", ".", "1">> }

\* An entry of the bin folder that is no release of Tags.
OtherEntry == <<"o", "l", "d">>

\* The callbacks of a plugin (GitHubReleasePackagerPlugin).
Callbacks ==
  {"getDownloadURL", "getSemver", "processBinary", "getExecutables", "postProcess"}

\* A plugin argument, or the `plugin` entry of the package file's grp object:
\* none; an object that has the callbacks `has`; a module that exports no
\* github object.
NoPlugin == [kind |-> "none", has |-> {}]
PluginObject(has) == [kind |-> "object", has |-> has]
NoGithubExport == [kind |-> "bad", has |-> {}]

\* The plugin arguments of UpdateBinary.
CallerPlugins ==
  {NoPlugin, PluginObject({}), PluginObject(Callbacks)}
    \cup {PluginObject({c}) : c \in Callbacks}

\* The plugin modules a package file may name.
PackagePlugins ==
  {NoPlugin, NoGithubExport, PluginObject({"getSemver"}),
   PluginObject(Callbacks \ {"getSemver"})}

\* The default plugin's function for every callback.
DefaultCallbacks == [c \in Callbacks |-> "default"]

\* getPlugin that gives up a plugin that lacks a callback for the default one.
getPluginAllOrNothing(plugin, packagePlugin) ==
  LET chosen == IF plugin.kind # "none" THEN plugin ELSE packagePlugin
  IN [loaded |-> chosen.kind # "bad",
      fn |-> [c \in Callbacks |->
                IF chosen.has = Callbacks THEN "own" ELSE "default"]]

\* getPlugin: the plugin argument if there is one, otherwise the github
\* object of the module the package file names, otherwise the default plugin;
\* each callback the plugin lacks is the default plugin's.
getPlugin(plugin, packagePlugin) ==
  LET chosen == IF plugin.kind # "none" THEN plugin ELSE packagePlugin
  IN [loaded |-> chosen.kind # "bad",
      fn |-> [c \in Callbacks |-> IF c \in chosen.has THEN "own" ELSE "default"]]

\* Paths: absolute (segs from a root) or relative (up times '..', then segs).
\* The root "main" is '/' on POSIX and the drive of the package folder and of
\* the working directory on Windows; "other" is another drive of Windows.
AbsolutePath(segs) == [abs |-> TRUE, root |-> "main", up |-> 0, segs |-> segs]
OtherDrivePath(segs) == [abs |-> TRUE, root |-> "other", up |-> 0, segs |-> segs]
RelativePath(up, segs) == [abs |-> FALSE, root |-> "none", up |-> up, segs |-> segs]

\* path.dirname(packageObject.packageFileName), an absolute path.
PkgDir == <<"pkg">>

\* process.cwd().
WorkingDirs == {PkgDir, <<"home">>}

\* path.resolve(base, p) for an absolute base: the segments from the root.
PathResolve(base, p) ==
  IF p.abs
    THEN p.segs
    ELSE SubSeq(base, 1, Len(base) - Min(p.up, Len(base))) \o p.segs

\* Length of the longest common prefix of two segment lists.
CommonLen(f, t) ==
  CHOOSE n \in 0..Min(Len(f), Len(t)) :
    /\ SubSeq(f, 1, n) = SubSeq(t, 1, n)
    /\ (n < Min(Len(f), Len(t)) => f[n + 1] # t[n + 1])

\* path.relative(from, to): both are resolved against the working directory,
\* then the way from `from` to `to` is given; there is no way from one drive
\* to another, and `to` is given as it is.
PathRelative(from, to, cwd) ==
  LET f == PathResolve(cwd, from)
      t == PathResolve(cwd, to)
      c == CommonLen(f, t)
  IN IF to.abs /\ to.root # "main"
       THEN to
       ELSE RelativePath(Len(f) - c, SubSeq(t, c + 1, Len(t)))

\* UpdateBinary, line 586-590: the value written to bin[key]; './' is put in
\* front of a path that is not absolute.
BinEntry(returned, cwd) ==
  LET relPath == PathRelative(AbsolutePath(PkgDir), returned, cwd)
  IN [dotSlash |-> ~relPath.abs, path |-> relPath]

\* The keys of bin objects, and the paths postProcess may return for them.
BinKeys == {"cli", "srv"}

ReturnedPaths ==
  { AbsolutePath(<<"pkg", "bin", "x">>),
    AbsolutePath(<<"opt", "x">>),
    OtherDrivePath(<<"x">>),
    RelativePath(0, <<"x">>) }

\* What postProcess resolves with: an object of paths, or no object.
PostResult(entries) == [isObject |-> TRUE, entries |-> entries]
NoObject == [isObject |-> FALSE, entries |-> <<>>]
PostResults ==
  {PostResult(e) : e \in UNION {[K -> ReturnedPaths] : K \in SUBSET BinKeys}}
    \cup {NoObject}

\* The bin object of the package file: absent, or its entries.
NoBin == [present |-> FALSE, entries |-> <<>>]
OldEntry == [dotSlash |-> TRUE, path |-> RelativePath(0, <<"old">>)]
BinObjects ==
  {NoBin, [present |-> TRUE, entries |-> [k \in {"cli"} |-> OldEntry]],
   [present |-> TRUE, entries |-> [k \in {"cli", "srv"} |-> OldEntry]]}

\* The bin object made of the returned keys only.
MergeBinReplace(old, entries, cwd) ==
  IF DOMAIN entries = {}
    THEN old
    ELSE [present |-> TRUE,
          entries |-> [k \in DOMAIN entries |-> BinEntry(entries[k], cwd)]]

\* UpdateBinary, line 579-596: the bin object after postProcess returned
\* `entries`.
MergeBin(old, entries, cwd) ==
  IF DOMAIN entries = {}
    THEN old
    ELSE [present |-> TRUE,
          entries |-> [k \in DOMAIN old.entries \cup DOMAIN entries |->
                         IF k \in DOMAIN entries
                           THEN BinEntry(entries[k], cwd)
                           ELSE old.entries[k]]]

NoPackage ==
  [version |-> <<>>, repository |-> "missing", packScripts |-> FALSE,
   executables |-> FALSE, plugin |-> NoPlugin, bin |-> NoBin]

\* plugin.getSemver of the default plugin, from call to settlement.
GetSemver(v, trims) ==
  IF RejectsVersion(v) THEN [ok |-> FALSE, value |-> <<>>]
  ELSE LET valid == SemverValid(v.str, trims)
       IN IF valid.ok
            THEN [ok |-> TRUE, value |-> valid.version]
            ELSE [ok |-> TRUE, value |-> Synthesize(ParseVersion(v.str))]

\* What a getSemver of a plugin of its own may resolve with (or reject).
OverrideVersions ==
  { <<"1", ".", "1", ".", "1">>,
    <<"1", ".", "1">>,
    <<"1", ".", "1", ".", "1", "+", "v">> }

NoVersion == [ok |-> FALSE, value |-> <<>>]

\* The settlements of plugin.getSemver(latest, defaultPlugin).
SemverOutcomes(by, tag, trims) ==
  IF by = "own"
    THEN {[ok |-> TRUE, value |-> v] : v \in OverrideVersions} \cup {NoVersion}
    ELSE {GetSemver(StringValue(tag), trims)}

\* The version written normalised by semver.valid instead of as returned.
NewVersionNormalised(value, trims) ==
  SemverValid(value, trims).version

\* UpdatePackage, line 657: packageJson.version = latestNPM.
NewVersion(value, trims) == value

\* getPackage without the check that the package file exists.
getPackageUnchecked(operation, exists) ==
  [operation |-> IF operation.isNaN THEN OperationDefault ELSE operation.value,
   found |-> TRUE]

\* getPackage: options.operation defaults to UpdateOperation.default, and the
\* package file must exist.
getPackage(operation, exists) ==
  [operation |-> IF operation.isNaN THEN OperationDefault ELSE operation.value,
   found |-> exists]

\* shouldAbort that stops in checkonly mode only.
shouldAbortCheckonlyOnly(condition, operation) ==
  operation = OperationCheckonly

\* shouldAbort that stops on a true condition in every mode.
shouldAbortForceToo(condition, operation) ==
  condition \/ operation = OperationCheckonly

\* shouldAbort that treats checkonly as default when the condition is false.
shouldAbortUnlessNeeded(condition, operation) ==
  condition /\ operation # OperationForce

\* shouldAbort: TRUE when the caller has to return without updating.
shouldAbort(condition, operation) ==
  IF condition
    THEN operation # OperationForce
    ELSE operation = OperationCheckonly

Snapshot ==
  [pkgExists |-> pkgExists, pkg |-> pkg, npmIgnore |-> npmIgnore,
   binFolder |-> binFolder, extracted |-> extracted, tempFolders |-> tempFolders]

NoBinResult == [cwd |-> PkgDir, result |-> PostResult(<<>>)]

\* The state no call has touched.
IdleCall ==
  /\ tempFolders = 0
  /\ upc = "idle"
  /\ ufn = "UpdatePackage"
  /\ uop = OperationDefault
  /\ uoptions = [isNaN |-> FALSE, value |-> OperationDefault]
  /\ ugiven = NoPlugin
  /\ uplugin = DefaultCallbacks
  /\ utag = <<>>
  /\ uout = "none"
  /\ requests = 0
  /\ downloads = 0
  /\ semverBy = "none"
  /\ latestNPM = NoVersion
  /\ ubin = NoBinResult
  /\ atCall = Snapshot
  /\ runs = 0

InitUpdate ==
  /\ pkgExists \in BOOLEAN
  /\ pkg \in IF pkgExists
               THEN {[version |-> v, repository |-> r, packScripts |-> FALSE,
                      executables |-> FALSE, plugin |-> NoPlugin, bin |-> NoBin] :
                       v \in PackageVersions, r \in {"github", "missing"}}
               ELSE {NoPackage}
  /\ npmIgnore \in {"absent", "other"}
  /\ binFolder \in {{}, {OtherEntry}, {<<"1", ".", "1", ".", "1">>}}
  /\ extracted = binFolder \ {OtherEntry}
  /\ IdleCall

\* UpdateBinary from line 493 to its next await, for release `tag`: the
\* up-to-date check on bin/<tag>, then getDownloadURL (`url` is what it
\* resolved with: "download" for a URL, "empty" for anything else), the
\* temporary folder and the download request (the first of the call).
BinaryEnter(tag, operation, url) ==
  /\ utag' = tag
  /\ IF shouldAbort(tag \in binFolder, operation)
       THEN /\ upc' = "idle"
            /\ uout' = "ok"
            /\ downloads' = 0
            /\ UNCHANGED tempFolders
       ELSE IF url = "download"
         THEN /\ upc' = "awaitDownload"
              /\ uout' = "none"
              /\ tempFolders' = tempFolders + 1
              /\ downloads' = 1
         ELSE /\ upc' = "awaitExecutables"
              /\ uout' = "none"
              /\ downloads' = 0
              /\ UNCHANGED tempFolders

\* What getDownloadURL may resolve with: the default plugin's gives a URL.
DownloadURLs(by) == IF by = "own" THEN {"download", "empty"} ELSE {"download"}

\* A call fails with `error` before it changed or downloaded anything.
FailEarly(error) ==
  /\ upc' = "idle"
  /\ uout' = error
  /\ downloads' = 0
  /\ UNCHANGED <<files, utag>>

\* UpdatePackage(options) / UpdateBinary(options, version, plugin) (and their
\* Sync variants, which wait for them) up to the first await: getPackage,
\* getRepository, getPlugin, then the latest-release request, or, for
\* UpdateBinary with a version, the code from line 493 on.
Call(fn, operation, given, plugin, url) ==
  /\ upc = "idle"
  /\ runs < MaxRuns
  /\ runs' = runs + 1
  /\ atCall' = Snapshot
  /\ ufn' = fn
  /\ uoptions' = operation
  /\ fn = "UpdatePackage" => plugin = NoPlugin
  /\ ugiven' = plugin
  /\ semverBy' = "none"
  /\ latestNPM' = NoVersion
  /\ ubin' = NoBinResult
  /\ LET package == getPackage(operation, pkgExists)
         resolved == getPlugin(plugin, pkg.plugin)
         entered == package.found /\ pkg.repository = "github" /\ resolved.loaded
     IN /\ uop' = package.operation
        /\ uplugin' = IF entered THEN resolved.fn ELSE DefaultCallbacks
        /\ url \in DownloadURLs(IF entered /\ fn = "UpdateBinary" /\ given # <<>>
                                  THEN resolved.fn["getDownloadURL"]
                                  ELSE "default")
        /\ IF ~package.found
             THEN FailEarly("PackageFileNotFound") /\ requests' = 0
           ELSE IF pkg.repository # "github"
             THEN FailEarly("NoRepository") /\ requests' = 0
           ELSE IF ~resolved.loaded
             THEN FailEarly("NoGithubExport") /\ requests' = 0
           ELSE IF fn = "UpdateBinary" /\ given # <<>>
             THEN /\ BinaryEnter(given, package.operation, url)
                  /\ requests' = 0
                  /\ UNCHANGED <<pkgExists, pkg, npmIgnore, binFolder, extracted>>
           ELSE /\ upc' = "awaitLatest"
                /\ uout' = "none"
                /\ requests' = 1
                /\ utag' = <<>>
                /\ downloads' = 0
                /\ UNCHANGED files
  /\ UNCHANGED <<semverTrims, semverVars, pureVars>>

\* GetLatestReleaseURL rejects (request error, or repository not found).
LatestFailed ==
  /\ upc = "awaitLatest"
  /\ upc' = "idle"
  /\ uout' = "LatestReleaseError"
  /\ UNCHANGED <<files, ufn, uop, uoptions, ugiven, uplugin, utag, requests, downloads,
                 semverBy, latestNPM, ubin, atCall, runs,
                 semverTrims, semverVars, pureVars>>

\* GetLatestReleaseURL resolves with the URL of release `tag`.
\* UpdatePackage (line 646-705): getSemver (which resolves with `semverOut`),
\* the validity check, the up-to-date check, the package file and .npmignore
\* are written, UpdateBinary is called.  UpdateBinary (line 493 on).
LatestResolved(tag, semverOut, url) ==
  /\ upc = "awaitLatest"
  /\ url \in DownloadURLs(uplugin["getDownloadURL"])
  /\ IF ufn = "UpdateBinary"
       THEN /\ semverOut = NoVersion
            /\ BinaryEnter(tag, uop, url)
            /\ UNCHANGED <<pkgExists, pkg, npmIgnore, binFolder, extracted,
                           semverBy, latestNPM>>
       ELSE /\ semverOut \in SemverOutcomes(uplugin["getSemver"], tag, semverTrims)
            /\ semverBy' = uplugin["getSemver"]
            /\ latestNPM' = semverOut
            /\ IF ~semverOut.ok
                 THEN FailEarly("InvalidVersionArgument")
               ELSE IF ~SemverValid(semverOut.value, semverTrims).ok
                 THEN /\ upc' = "idle"
                      /\ uout' = "InvalidVersionExpression"
                      /\ utag' = tag
                      /\ downloads' = 0
                      /\ UNCHANGED files
               ELSE IF shouldAbort(~SemverLt(pkg.version, semverOut.value), uop)
                 THEN /\ upc' = "idle"
                      /\ uout' = "ok"
                      /\ utag' = tag
                      /\ downloads' = 0
                      /\ UNCHANGED files
               ELSE /\ pkg' = [pkg EXCEPT
                                 !.version = NewVersion(semverOut.value, semverTrims),
                                 !.packScripts = TRUE]
                    /\ npmIgnore' = "binbak"
                    /\ BinaryEnter(tag, uop, url)
                    /\ UNCHANGED <<pkgExists, binFolder, extracted>>
  /\ UNCHANGED <<ufn, uop, uoptions, ugiven, uplugin, requests, ubin, atCall, runs,
                 semverTrims, semverVars, pureVars>>

\* The download fails (request error, other status than 200, write error), or
\* the downloaded file is not there: cleanup(), then the error is thrown.
DownloadFailed ==
  /\ upc = "awaitDownload"
  /\ upc' = "idle"
  /\ uout' = "DownloadError"
  /\ tempFolders' = tempFolders - 1
  /\ UNCHANGED <<pkgExists, pkg, npmIgnore, binFolder, extracted, ufn, uop, uoptions,
                 ugiven, uplugin, utag, requests, downloads, semverBy,
                 latestNPM, ubin, atCall, runs, semverTrims, semverVars, pureVars>>

\* The bin folder with bin/<tag> added to what it holds.
EnsureBinPath(folder, tag) == folder \cup {tag}

\* Line 556-558: fs.remove(path.dirname(binPath)), then
\* fs.ensureDirSync(binPath): the entries of the bin folder afterwards.
RecreateBinPath(folder, tag) == {tag}

\* The download finished (line 551-560): the bin folder is removed,
\* bin/<tag> is created and processBinary is called.
DownloadFinished ==
  /\ upc = "awaitDownload"
  /\ upc' = "awaitProcess"
  /\ binFolder' = RecreateBinPath(binFolder, utag)
  /\ extracted' = {}
  /\ UNCHANGED <<pkgExists, pkg, npmIgnore, tempFolders, ufn, uop, uoptions, ugiven,
                 uplugin, utag, uout, requests, downloads, semverBy, latestNPM,
                 ubin, atCall, runs, semverTrims, semverVars, pureVars>>

\* processBinary resolves (line 560-569): cleanup(), then getExecutables is
\* called.
ProcessResolved ==
  /\ upc = "awaitProcess"
  /\ upc' = "awaitExecutables"
  /\ extracted' = {utag}
  /\ tempFolders' = tempFolders - 1
  /\ UNCHANGED <<pkgExists, pkg, npmIgnore, binFolder, ufn, uop, uoptions, ugiven,
                 uplugin, utag, uout, requests, downloads, semverBy, latestNPM,
                 ubin, atCall, runs, semverTrims, semverVars, pureVars>>

\* processBinary rejects: UpdateBinary is left by the exception at line 560.
ProcessRejected ==
  /\ upc = "awaitProcess"
  /\ upc' = "idle"
  /\ uout' = "ProcessBinaryError"
  /\ UNCHANGED <<files, ufn, uop, uoptions, ugiven, uplugin, utag, requests, downloads,
                 semverBy, latestNPM, ubin, atCall, runs,
                 semverTrims, semverVars, pureVars>>

\* What getExecutables may resolve with: the default plugin's gives {}.
ExecutablesResults(by) ==
  IF by = "own" THEN {"object", "undefined"} ELSE {"object"}

\* What postProcess may resolve with: the default plugin's gives {}.
PostProcessResults(by) ==
  IF by = "own" THEN PostResults ELSE {PostResult(<<>>)}

\* getExecutables resolves with `executables` (line 569-601): grp.executables
\* is set, postProcess is called and resolves with `bin`, the bin object is
\* brought up to date and the package file is written.
ExecutablesResolved(executables, bin, cwd) ==
  /\ upc = "awaitExecutables"
  /\ executables \in ExecutablesResults(uplugin["getExecutables"])
  /\ bin \in IF executables = "object"
               THEN PostProcessResults(uplugin["postProcess"])
               ELSE {PostResult(<<>>)}
  /\ cwd \in IF \E k \in DOMAIN bin.entries : ~bin.entries[k].abs
               THEN WorkingDirs
               ELSE {PkgDir}
  /\ upc' = "idle"
  /\ ubin' = [cwd |-> cwd, result |-> bin]
  /\ IF executables # "object"
       THEN uout' = "ok" /\ UNCHANGED pkg
     ELSE IF ~bin.isObject
       THEN uout' = "TypeError" /\ UNCHANGED pkg
     ELSE /\ uout' = "ok"
          /\ pkg' = [pkg EXCEPT !.executables = TRUE,
                                !.bin = MergeBin(pkg.bin, bin.entries, cwd)]
  /\ UNCHANGED <<pkgExists, npmIgnore, binFolder, extracted, tempFolders, ufn,
                 uop, uoptions, ugiven, uplugin, utag, requests, downloads, semverBy,
                 latestNPM, atCall, runs, semverTrims, semverVars, pureVars>>

\* The default plugin is the only one: no plugin argument, no plugin module.
NextUpdate ==
  \/ \E fn \in {"UpdatePackage", "UpdateBinary"}, operation \in Operations,
        given \in Tags \cup {<<>>} :
       Call(fn, operation, given, NoPlugin, "download")
  \/ LatestFailed
  \/ \E tag \in Tags :
       \E semverOut \in {NoVersion} \cup SemverOutcomes("default", tag, semverTrims) :
         LatestResolved(tag, semverOut, "download")
  \/ DownloadFailed
  \/ DownloadFinished
  \/ ProcessResolved
  \/ ProcessRejected
  \/ ExecutablesResolved("object", PostResult(<<>>), PkgDir)

\* One call, with the plugins of the caller and of the package file.
PluginTags == {<<"1", ".", "1", ".", "1">>}

NextPlugin ==
  \/ \E fn \in {"UpdatePackage", "UpdateBinary"}, operation \in Operations,
        given \in PluginTags \cup {<<>>}, plugin \in CallerPlugins,
        url \in {"download", "empty"} :
       runs = 0 /\ Call(fn, operation, given, plugin, url)
  \/ LatestFailed
  \/ \E tag \in PluginTags, url \in {"download", "empty"} :
       \E semverOut \in {NoVersion} \cup SemverOutcomes("own", tag, semverTrims)
                           \cup SemverOutcomes("default", tag, semverTrims) :
         LatestResolved(tag, semverOut, url)
  \/ DownloadFailed
  \/ DownloadFinished
  \/ ProcessResolved
  \/ ProcessRejected
  \/ \E executables \in {"object", "undefined"}, bin \in PostResults,
        cwd \in WorkingDirs :
       ExecutablesResolved(executables, bin, cwd)

\* ------------------------------------------------- precedence of releases
\* Numbers as they are written in plain releases: small and larger ones, and
\* one with a leading zero.
NumberTokens ==
  { <<"0">>, <<"1">>, <<"2">>, <<"1", "0">>, <<"0", "1">> }

\* One to three numbers separated by '.'.
PlainReleases ==
  {Join(t, <<".">>) : t \in UNION {[1..n -> NumberTokens] : n \in 1..3}}

NoPair == [a |-> <<>>, b |-> <<>>]

InitOrder ==
  /\ pair \in [a : PlainReleases, b : PlainReleases]
  /\ semvers = NoPair
  /\ opc = "a"

\* getSemver(a, defaultPlugin) settles.
GetSemverOfA ==
  /\ opc = "a"
  /\ semvers' = [semvers EXCEPT !.a = GetSemver(StringValue(pair.a), semverTrims).value]
  /\ opc' = "b"
  /\ UNCHANGED <<pair, semverTrims, semverVars, updateVars, lookupVars,
                 sanitizeVars, copyVars>>

\* getSemver(b, defaultPlugin) settles.
GetSemverOfB ==
  /\ opc = "b"
  /\ semvers' = [semvers EXCEPT !.b = GetSemver(StringValue(pair.b), semverTrims).value]
  /\ opc' = "done"
  /\ UNCHANGED <<pair, semverTrims, semverVars, updateVars, lookupVars,
                 sanitizeVars, copyVars>>

NextOrder ==
  \/ GetSemverOfA
  \/ GetSemverOfB

\* Three numbers separated by '.', and the same with a fourth one behind.
ThreePartReleases == {Join(t, <<".">>) : t \in [1..3 -> NumberTokens]}

InitPrefix ==
  /\ pair \in {[a |-> r, b |-> r \o <<".">> \o d] :
                 r \in ThreePartReleases, d \in NumberTokens}
  /\ semvers = NoPair
  /\ opc = "a"

\* UpdatePackage, line 651-655, in default mode for a package file whose
\* version is what a gave and a latest release whose version is what b gave:
\* the call returns ("uptodate") or goes on to update ("update").
NeedUpdateCheck ==
  /\ opc = "done"
  /\ opc' = IF shouldAbort(~SemverLt(semvers.a, semvers.b), OperationDefault)
              THEN "uptodate"
              ELSE "update"
  /\ UNCHANGED <<pair, semvers, semverTrims, semverVars, updateVars, lookupVars,
                 sanitizeVars, copyVars>>

NextPrefix ==
  \/ GetSemverOfA
  \/ GetSemverOfB
  \/ NeedUpdateCheck

\* ------------------------------------------------------ executable lookup
\* JavaScript values: undefined, a string, an object with properties.
JsUndefined == [kind |-> "undefined", str |-> <<>>, props |-> <<>>]
JsString(s) == [kind |-> "string", str |-> s, props |-> <<>>]
JsObject(props) == [kind |-> "object", str |-> <<>>, props |-> props]

\* value[key]: a string has none of the keys used here.
JsGet(value, key) ==
  IF value.kind = "object" /\ key \in DOMAIN value.props
    THEN value.props[key]
    ELSE JsUndefined

\* !!value
JsTruthy(value) ==
  value.kind = "object" \/ (value.kind = "string" /\ value.str # <<>>)

\* a || b
JsOr(a, b) == IF JsTruthy(a) THEN a ELSE b

\* GetExecutable that looks under 'default' again when the platform's entry
\* gave no path.
GetExecutableBacktracking(executableName, executables, platform, arch) ==
  LET byLabel == JsGet(executables, executableName)
      own == JsGet(byLabel, platform)
      fallback == JsGet(byLabel, "default")
      ownPath == JsOr(JsGet(own, arch), JsGet(own, "default"))
      fallbackPath == JsOr(JsGet(fallback, arch), JsGet(fallback, "default"))
  IN IF JsTruthy(own) /\ JsTruthy(ownPath) THEN ownPath
     ELSE IF JsTruthy(fallback) /\ JsTruthy(fallbackPath) THEN fallbackPath
     ELSE JsString(<<>>)

\* GetExecutable of the default plugin; platform and arch are
\* process.platform and process.arch.
GetExecutable(executableName, executables, platform, arch) ==
  LET byLabel == JsGet(executables, executableName)
      byPlatform == JsOr(JsGet(byLabel, platform), JsGet(byLabel, "default"))
      byArch == JsOr(JsGet(byPlatform, arch), JsGet(byPlatform, "default"))
  IN IF ~JsTruthy(byLabel) THEN JsString(<<>>)
     ELSE IF ~JsTruthy(byPlatform) THEN JsString(<<>>)
     ELSE IF ~JsTruthy(byArch) THEN JsString(<<>>)
     ELSE byArch

\* The keys of the objects looked into.
PlatformKeys == {"linux", "default"}
ArchKeys == {"x64", "default"}

\* The objects stored for a platform key: each architecture key is absent,
\* holds the empty string, or holds a path that tells where it is stored.
ArchObjects(p) ==
  {[k \in K |-> IF k \in E THEN JsString(<<>>) ELSE JsString(<<p, k>>)] :
     K \in SUBSET ArchKeys, E \in SUBSET ArchKeys}

\* What is stored under a platform key: a string or such an object.
PlatformEntries(p) ==
  {JsString(<<p>>)} \cup {JsObject(m) : m \in ArchObjects(p)}

PlatformObjects ==
  UNION {{f \in [K -> UNION {PlatformEntries(k) : k \in K}] :
            \A k \in K : f[k] \in PlatformEntries(k)} :
         K \in SUBSET PlatformKeys}

\* The executables object: empty, or with what is stored for label "exe".
ExecutablesObjects ==
  {JsObject(<<>>), JsObject([l \in {"exe"} |-> JsString(<<"exe">>)])}
    \cup {JsObject([l \in {"exe"} |-> JsObject(m)]) : m \in PlatformObjects}

NoLookup ==
  [executableName |-> "exe", executables |-> JsObject(<<>>),
   platform |-> "linux", arch |-> "x64"]

InitLookup ==
  /\ lookup \in [executableName : {"exe", "none"},
                 executables : ExecutablesObjects,
                 platform : {"linux", "win32"},
                 arch : {"x64", "arm"}]
  /\ executablePath = JsUndefined
  /\ epc = "call"

\* GetExecutable(executableName, executables, defaultPlugin) settles.
GetExecutableCall ==
  /\ epc = "call"
  /\ executablePath' =
       GetExecutable(lookup.executableName, lookup.executables,
                     lookup.platform, lookup.arch)
  /\ epc' = "done"
  /\ UNCHANGED <<lookup, semverTrims, semverVars, updateVars, orderVars,
                 sanitizeVars, copyVars>>

NextLookup == GetExecutableCall

\* --------------------------------------------------------- the sanitizer
\* Characters the sections given to GetSectionString are drawn from: a digit,
\* a lower-case and an upper-case letter, '-' and '.', and three characters
\* the pattern of line 186 does not let through.
SectionChars == {"0", "a", "Z", "-", ".", "+", " ", "_"}

\* The arguments GetSectionString is called with.
Sections ==
  {StringValue(s) : s \in UNION {[1..n -> SectionChars] : n \in 0..MaxLen}}
    \cup {[type |-> "undefined", str |-> <<>>], [type |-> "number", str |-> <<>>]}

InitSanitize ==
  /\ section \in Sections
  /\ sectionStrings = <<>>
  /\ gpc = "call"

\* GetSectionString(section, defaultPlugin) settles (line 181-187).
GetSectionStringCall ==
  /\ gpc = "call"
  /\ IF section.type # "string"
       THEN gpc' = "failed" /\ UNCHANGED sectionStrings
       ELSE /\ sectionStrings' = <<GetSectionString(section.str)>>
            /\ gpc' = "again"
  /\ UNCHANGED <<section, semverTrims, semverVars, updateVars, orderVars,
                 lookupVars, copyVars>>

\* GetSectionString is called with what it resolved with.
GetSectionStringAgain ==
  /\ gpc = "again"
  /\ sectionStrings' = Append(sectionStrings, GetSectionString(sectionStrings[1]))
  /\ gpc' = "done"
  /\ UNCHANGED <<section, semverTrims, semverVars, updateVars, orderVars,
                 lookupVars, copyVars>>

NextSanitize ==
  \/ GetSectionStringCall
  \/ GetSectionStringAgain

\* GetSectionString is not called on its own.
IdleSanitize ==
  /\ section = StringValue(<<>>)
  /\ sectionStrings = <<>>
  /\ gpc = "idle"

\* -------------------------------------------------------------- copyPaths
\* The values found in an executables object: a path (a string), an object
\* of such values, or something that is neither (undefined).
JsPath(p) == [kind |-> "string", str |-> p, props |-> <<>>]

\* The paths: one below the package folder, absolute and relative, and an
\* absolute one elsewhere.
CopiedPaths ==
  { AbsolutePath(<<"pkg", "bin", "x">>),
    AbsolutePath(<<"opt", "x">>),
    RelativePath(0, <<"bin", "x">>) }

CopyKeys == {"linux", "default"}

CopyLeaves == {JsPath(p) : p \in CopiedPaths} \cup {JsUndefined}

\* Objects of leaves, and objects of leaves and such objects.
InnerObjects ==
  {JsObject(f) : f \in UNION {[K -> CopyLeaves] : K \in SUBSET CopyKeys}}

OuterObjects ==
  {JsObject(f) :
     f \in UNION {[K -> CopyLeaves \cup InnerObjects] : K \in SUBSET CopyKeys}}

Thrown == [ok |-> FALSE, value |-> JsUndefined]

\* The string copyPaths stores for a path, line 423-434: nothing (kept
\* FALSE) for a path that already is of the kind asked for.
ConvertPath(pathKind, rootPath, p) ==
  IF pathKind = "absolute"
    THEN [kept |-> ~p.abs, path |-> AbsolutePath(PathResolve(rootPath, p))]
    ELSE [kept |-> p.abs, path |-> PathRelative(AbsolutePath(rootPath), p, rootPath)]

\* copyPaths(pathKind, rootPath, object), line 412-444.
RECURSIVE copyPaths(_, _, _)
copyPaths(pathKind, rootPath, object) ==
  IF object.kind # "object" THEN Thrown
  ELSE
    LET keys == DOMAIN object.props
        inner(k) == copyPaths(pathKind, rootPath, object.props[k])
        throws(k) ==
          \/ object.props[k].kind \notin {"string", "object"}
          \/ object.props[k].kind = "object" /\ ~inner(k).ok
        set == {k \in keys :
                  \/ object.props[k].kind = "object"
                  \/ /\ object.props[k].kind = "string"
                     /\ ConvertPath(pathKind, rootPath, object.props[k].str).kept}
    IN IF \E k \in keys : throws(k)
         THEN Thrown
         ELSE [ok |-> TRUE,
               value |-> JsObject([k \in set |->
                           IF object.props[k].kind = "object"
                             THEN inner(k).value
                             ELSE JsPath(ConvertPath(pathKind, rootPath,
                                                     object.props[k].str).path)])]

NoCopy == [pathKind |-> "relative", object |-> JsObject(<<>>)]

InitCopy ==
  /\ copyArgs \in [pathKind : {"absolute", "relative"},
                   object : OuterObjects \cup {JsUndefined}]
  /\ copied = Thrown
  /\ cpc = "call"

\* copyPaths(pathKind, path.dirname(packageFileName), object) returns or
\* throws (UpdateBinary line 571, GetExecutable line 808).
CopyPathsCall ==
  /\ cpc = "call"
  /\ copied' = copyPaths(copyArgs.pathKind, PkgDir, copyArgs.object)
  /\ cpc' = "done"
  /\ UNCHANGED <<copyArgs, semverTrims, semverVars, updateVars, orderVars,
                 lookupVars, sanitizeVars>>

NextCopy == CopyPathsCall

\* copyPaths is not called on its own.
IdleCopy ==
  /\ copyArgs = NoCopy
  /\ copied = Thrown
  /\ cpc = "idle"

\* No plain releases are compared and nothing is looked up.
IdlePure ==
  /\ pair = NoPair
  /\ semvers = NoPair
  /\ opc = "idle"
  /\ lookup = NoLookup
  /\ executablePath = JsUndefined
  /\ epc = "idle"
  /\ IdleSanitize
  /\ IdleCopy

\* No getSemver call of its own is under way.
IdleSemver ==
  /\ input = StringValue(<<>>)
  /\ version = input
  /\ pc = "done"
  /\ sections = NoSections
  /\ result = <<>>
  /\ round = 2
  /\ firstResult = <<>>
  /\ validCalls = 0
  /\ parseCalls = 0

\* ------------------------------------------------------- specifications
\* getSemver on its own: no updater call is made.
Init ==
  /\ InitSemver
  /\ pkgExists = FALSE
  /\ pkg = NoPackage
  /\ npmIgnore = "absent"
  /\ binFolder = {}
  /\ extracted = {}
  /\ IdleCall
  /\ IdlePure

Next == NextSemver

Spec == Init /\ [][Next]_vars

\* The updater: getSemver is the operator the updater applies.
InitUpdater ==
  /\ InitUpdate
  /\ semverTrims \in BOOLEAN
  /\ IdleSemver
  /\ IdlePure

SpecUpdate == InitUpdater /\ [][NextUpdate]_vars

\* The updater with plugins: the package file exists and names a repository.
InitPlugin ==
  /\ semverTrims \in BOOLEAN
  /\ pkgExists = TRUE
  /\ pkg \in {[version |-> v, repository |-> "github", packScripts |-> FALSE,
               executables |-> FALSE, plugin |-> p, bin |-> b] :
                v \in PackageVersions, p \in PackagePlugins, b \in BinObjects}
  /\ npmIgnore = "other"
  /\ binFolder \in {{}, {OtherEntry, <<"1", ".", "1">>}, {<<"1", ".", "1", ".", "1">>}}
  /\ extracted = binFolder \ {OtherEntry}
  /\ IdleCall
  /\ IdleSemver
  /\ IdlePure

SpecPlugin == InitPlugin /\ [][NextPlugin]_vars

\* Two plain releases are given to getSemver.
InitOrdering ==
  /\ semverTrims \in BOOLEAN
  /\ InitOrder
  /\ IdleSemver
  /\ pkgExists = FALSE
  /\ pkg = NoPackage
  /\ npmIgnore = "absent"
  /\ binFolder = {}
  /\ extracted = {}
  /\ IdleCall
  /\ lookup = NoLookup
  /\ executablePath = JsUndefined
  /\ epc = "idle"
  /\ IdleSanitize
  /\ IdleCopy

SpecOrder == InitOrdering /\ [][NextOrder]_vars

\* A release of three numbers and the same release with a fourth number are
\* given to getSemver, and UpdatePackage compares what it gave.
InitPrefixing ==
  /\ semverTrims \in BOOLEAN
  /\ InitPrefix
  /\ IdleSemver
  /\ pkgExists = FALSE
  /\ pkg = NoPackage
  /\ npmIgnore = "absent"
  /\ binFolder = {}
  /\ extracted = {}
  /\ IdleCall
  /\ lookup = NoLookup
  /\ executablePath = JsUndefined
  /\ epc = "idle"
  /\ IdleSanitize
  /\ IdleCopy

SpecPrefix == InitPrefixing /\ [][NextPrefix]_vars

\* GetExecutable of the default plugin on its own.
InitExecutable ==
  /\ semverTrims = TRUE
  /\ InitLookup
  /\ IdleSemver
  /\ pkgExists = FALSE
  /\ pkg = NoPackage
  /\ npmIgnore = "absent"
  /\ binFolder = {}
  /\ extracted = {}
  /\ IdleCall
  /\ pair = NoPair
  /\ semvers = NoPair
  /\ opc = "idle"
  /\ IdleSanitize
  /\ IdleCopy

SpecExecutable == InitExecutable /\ [][NextLookup]_vars

\* GetSectionString of the default plugin on its own.
InitSanitizer ==
  /\ semverTrims = TRUE
  /\ InitSanitize
  /\ IdleSemver
  /\ pkgExists = FALSE
  /\ pkg = NoPackage
  /\ npmIgnore = "absent"
  /\ binFolder = {}
  /\ extracted = {}
  /\ IdleCall
  /\ pair = NoPair
  /\ semvers = NoPair
  /\ opc = "idle"
  /\ lookup = NoLookup
  /\ executablePath = JsUndefined
  /\ epc = "idle"
  /\ IdleCopy

SpecSanitize == InitSanitizer /\ [][NextSanitize]_vars

\* copyPaths on its own.
InitCopier ==
  /\ semverTrims = TRUE
  /\ InitCopy
  /\ IdleSemver
  /\ pkgExists = FALSE
  /\ pkg = NoPackage
  /\ npmIgnore = "absent"
  /\ binFolder = {}
  /\ extracted = {}
  /\ IdleCall
  /\ pair = NoPair
  /\ semvers = NoPair
  /\ opc = "idle"
  /\ lookup = NoLookup
  /\ executablePath = JsUndefined
  /\ epc = "idle"
  /\ IdleSanitize

SpecCopy == InitCopier /\ [][NextCopy]_vars

\* ================================================================ claims
\* What the claims speak of, stated on the characters of a string.
CountChar(s, c) == Cardinality({i \in 1..Len(s) : s[i] = c})

EndsWith(s, c) == Len(s) > 0 /\ s[Len(s)] = c

\* Position of the first c in s at or after position from, Len(s) + 1 if none.
FirstAt(s, c, from) ==
  IF \E i \in from..Len(s) : s[i] = c
    THEN CHOOSE i \in from..Len(s) : s[i] = c /\ \A j \in from..(i - 1) : s[j] # c
    ELSE Len(s) + 1

\* s is one or more non-empty tokens of characters of S, separated by '.'.
IsDotted(s, S) ==
  /\ Len(s) > 0
  /\ s[1] # "."
  /\ s[Len(s)] # "."
  /\ \A i \in 1..Len(s) : s[i] \in S \cup {"."}
  /\ \A i \in 1..(Len(s) - 1) : ~(s[i] = "." /\ s[i + 1] = ".")

\* A valid strict version expression: three dot-separated non-negative
\* integers, then optionally '-' and dot-separated alphanumeric-or-hyphen
\* tokens, then optionally '+' and such tokens.
IsVersionExpression(s) ==
  LET plus == FirstAt(s, "+", 1)
      head == SubSeq(s, 1, plus - 1)
      dash == FirstAt(head, "-", 1)
      release == SubSeq(head, 1, dash - 1)
      prerelease == SubSeq(head, dash + 1, Len(head))
      build == SubSeq(s, plus + 1, Len(s))
  IN /\ IsDotted(release, Digits)
     /\ CountChar(release, ".") = 2
     /\ (dash <= Len(head) => IsDotted(prerelease, Digits \cup Letters \cup {"-"}))
     /\ (plus <= Len(s) => IsDotted(build, Digits \cup Letters \cup {"-"}))

\* A token of s that is a number written with a leading zero starts at i.
LeadingZeroAt(s, i) ==
  /\ i = 1 \/ s[i - 1] \in {".", "-"}
  /\ s[i] = "0"
  /\ i < Len(s)
  /\ s[i + 1] \in Digits
  /\ LET end == Min(FirstAt(s, ".", i), FirstAt(s, "+", i))
     IN \A j \in i..(end - 1) : s[j] \in Digits

\* A version expression the semantic-versioning grammar accepts as it stands:
\* no numeric release or prerelease token has a leading zero.
IsStrictVersion(s) ==
  /\ IsVersionExpression(s)
  /\ LET head == SubSeq(s, 1, FirstAt(s, "+", 1) - 1)
         dash == FirstAt(head, "-", 1)
     IN \A i \in 1..Len(head) :
          ~(LeadingZeroAt(head, i) /\ (i = 1 \/ head[i - 1] = "." \/ i = dash + 1))

\* The first getSemver call has returned a string.
Returned == pc = "done" /\ round = 1

\* The first getSemver call has returned a string it built from the sections
\* ParseVersion gave it.
ReturnedParsed == Returned /\ parseCalls = 1

\* C1: every string that already is a valid strict version expression is
\* returned by getSemver exactly as it was given, prerelease and build
\* metadata included.
C1_FastPathIdentity ==
  (Returned /\ input.type = "string" /\ IsStrictVersion(input.str))
    => result = input.str

\* C2: whatever non-blank string getSemver is given, what it returns is a
\* valid strict version expression.
C2_AlwaysValid == Returned => IsVersionExpression(result)

\* C3: getSemver applied to its own result returns that result.
C3_Idempotent ==
  (round = 2 /\ pc \in {"done", "failed"}) => (pc = "done" /\ result = firstResult)

\* The parts of a section written out and joined with '.'.
Dotted(parts) == JoinParts(parts, <<".">>)

AllNumbers(parts) == \A i \in 1..Len(parts) : parts[i].isNum

\* The '-' group of the real prerelease and the '+' group of the build
\* metadata, each present only when its section has parts.
Suffixes(s) ==
  (IF s.Prerelease # <<>> THEN <<"-">> \o Dotted(s.Prerelease) ELSE <<>>)
    \o (IF s.BuildMetadata # <<>> THEN <<"+">> \o Dotted(s.BuildMetadata) ELSE <<>>)

\* C4: a parsed release of one or two parts, all integers, is returned joined
\* with '.' and padded with '.0' to three components, followed only by the
\* prerelease and build-metadata groups.
C4_ZeroPadding ==
  (ReturnedParsed /\ Len(sections.Release) \in {1, 2} /\ AllNumbers(sections.Release))
    => result =
         Dotted(sections.Release)
           \o (IF Len(sections.Release) = 1 THEN <<".", "0", ".", "0">> ELSE <<".", "0">>)
           \o Suffixes(sections)

C4_Witness ==
  /\ ReturnedParsed
  /\ sections.Release = <<NumPart(1)>>
  /\ sections.Prerelease # <<>>
  /\ SubSeq(result, 1, 5) = <<"1", ".", "0", ".", "0">>

\* C5: a parsed release of more than three parts whose first three are
\* integers is returned as the first three joined with '.', then '-' and all
\* the remaining release parts, in order, joined with '.'.
C5_ReleaseOverflow ==
  (ReturnedParsed /\ Len(sections.Release) > 3
     /\ AllNumbers(SubSeq(sections.Release, 1, 3)))
    => result =
         Dotted(SubSeq(sections.Release, 1, 3))
           \o <<"-">>
           \o Dotted(SubSeq(sections.Release, 4, Len(sections.Release)))
           \o Suffixes(sections)

C5_Witness ==
  /\ ReturnedParsed
  /\ Len(sections.Release) > 3
  /\ AllNumbers(SubSeq(sections.Release, 1, 3))
  /\ ~sections.Release[4].isNum
  /\ result = <<"1", ".", "1", ".", "1", "-", "v", "0">>

\* C6: a parsed release with a non-integer among its first three parts is
\* returned as 0.0.0, then '-' and ALL release parts joined with '.'.
C6_NonNumericRelease ==
  (ReturnedParsed
     /\ \E i \in 1..Min(3, Len(sections.Release)) : ~sections.Release[i].isNum)
    => result =
         <<"0", ".", "0", ".", "0", "-">> \o Dotted(sections.Release) \o Suffixes(sections)

C6_Witness ==
  /\ ReturnedParsed
  /\ Len(sections.Release) = 3
  /\ sections.Release[1].isNum
  /\ ~sections.Release[3].isNum
  /\ result = <<"0", ".", "0", ".", "0", "-", "1", ".", "1", ".", "v">>

\* The text after the first '-' of s, up to the first '+' that follows, is empty.
DanglingPrerelease(s) ==
  LET dash == FirstAt(s, "-", 1)
  IN dash <= Len(s) /\ FirstAt(s, "+", dash + 1) = dash + 1

\* The text after the first '+' that follows the first '-' of s is empty.
DanglingBuild(s) ==
  LET dash == FirstAt(s, "-", 1)
  IN dash <= Len(s) /\ FirstAt(s, "+", dash + 1) = Len(s)

\* The release parts give a '-' group of their own.
ReleaseHasGroup(release) ==
  Len(release) > 3 \/ ~AllNumbers(SubSeq(release, 1, Min(3, Len(release))))

\* No '-' group is appended for an empty prerelease text and no '+' group for
\* an empty build text.
DanglingDropped ==
  (Returned /\ input.type = "string")
    => /\ DanglingPrerelease(input.str)
            => CountChar(result, "-") = IF ReleaseHasGroup(sections.Release) THEN 1 ELSE 0
       /\ DanglingBuild(input.str) => CountChar(result, "+") = 0

\* C7 as claimed: dangling delimiters are dropped, and no result ends in '-'
\* or '+'.
C7_NeverEndsInDelimiter ==
  /\ DanglingDropped
  /\ Returned => ~EndsWith(result, "-") /\ ~EndsWith(result, "+")

\* C7 as amended: dangling delimiters are dropped; no result ends in '+', and
\* a result ends in '-' only when it is an already valid version expression
\* that the fast path returned without parsing.
C7_DanglingDropped ==
  /\ DanglingDropped
  /\ Returned
       => /\ ~EndsWith(result, "+")
          /\ EndsWith(result, "-") => (parseCalls = 0 /\ IsVersionExpression(result))

C7_Witness ==
  /\ Returned
  /\ input = StringValue(<<"1", ".", "1", ".", "1", "-">>)
  /\ result = <<"1", ".", "1", ".", "1">>

\* The argument is not a string, or is empty, or is white space only.
IsBlank(v) ==
  v.type # "string" \/ \A i \in 1..Len(v.str) : v.str[i] \in WhiteSpace

\* C8: getSemver fails exactly when its argument is not a string, is empty or
\* is white space only, and then neither semver.valid nor ParseVersion has
\* been called.
C8_InputRejection ==
  (round = 1 /\ pc # "call")
    => /\ pc = "failed" <=> IsBlank(input)
       /\ pc = "failed" => (validCalls = 0 /\ parseCalls = 0)

C8_Witness ==
  /\ pc = "failed"
  /\ input = StringValue(<<" ", " ">>)
  /\ validCalls = 0
  /\ parseCalls = 0

\* C9: when the package file does not exist, UpdatePackage and UpdateBinary
\* fail with "Package file ... could not be found.", no request has been sent
\* and no file or folder has been created, changed or removed.
C9_MissingPackageFile ==
  (runs > 0 /\ ~atCall.pkgExists)
    => /\ upc = "idle"
       /\ uout = "PackageFileNotFound"
       /\ requests = 0
       /\ downloads = 0
       /\ Snapshot = atCall

C9_Witness ==
  /\ runs > 0
  /\ ~atCall.pkgExists
  /\ ufn = "UpdateBinary"
  /\ uout = "PackageFileNotFound"
  /\ binFolder # {}

\* C10: a call with options.operation = checkonly writes no package file and
\* no .npmignore, creates and removes nothing under bin, makes no temporary
\* folder and downloads nothing, at any moment of the call and after it.
C10_CheckonlyReadOnly ==
  (runs > 0 /\ uop = OperationCheckonly)
    => /\ Snapshot = atCall
       /\ downloads = 0
       /\ upc \notin {"awaitDownload", "awaitProcess"}

\* A checkonly UpdatePackage that found the package version lower than the
\* latest release and returned.
C10_Witness ==
  /\ runs > 0
  /\ uop = OperationCheckonly
  /\ ufn = "UpdatePackage"
  /\ upc = "idle"
  /\ uout = "ok"
  /\ utag = <<"1", ".", "1", ".", "1">>
  /\ pkg.version = <<"1", ".", "0", ".", "0">>
  /\ utag \notin binFolder

\* C11: the temporary download folder UpdateBinary made is deleted by the
\* time UpdateBinary is left, on every path through it: download error,
\* downloaded file missing, processBinary resolving and processBinary
\* rejecting.
C11_TempFolderCleanup == upc = "idle" => tempFolders = 0

\* C12: after any sequence of runs bin/<version> exists only if the release
\* was downloaded and processBinary completed for it, so that a default-mode
\* run finds the binaries up to date and skips the download only when they
\* were extracted.
C12_BinTracksBinaries ==
  upc = "idle"
    => /\ \A tag \in binFolder \ {OtherEntry} : tag \in extracted
       /\ (runs > 0 /\ uout = "ok" /\ uop = OperationDefault /\ utag \in binFolder)
            => utag \in extracted

\* C13: after every run of UpdatePackage in default or force mode that
\* returned without error, whether or not the version needed an update, the
\* prepack and postpack scripts refer to lib/renamebin and lib/restorebin and
\* .npmignore has a bin.bak line.
C13_PackBookkeeping ==
  (runs > 0 /\ ufn = "UpdatePackage" /\ upc = "idle" /\ uout = "ok"
     /\ uop \in {OperationDefault, OperationForce})
    => (pkg.packScripts /\ npmIgnore = "binbak")

\* Where a bin entry of the package file points: the folders walked from the
\* package folder.
PointsAt(entry) ==
  LET start == SubSeq(PkgDir, 1, Len(PkgDir) - Min(entry.path.up, Len(PkgDir)))
  IN start \o entry.path.segs

\* Where a path postProcess returned lies, a relative one being taken from
\* the working directory.
LiesAt(returned, cwd) ==
  IF returned.abs THEN returned.segs ELSE cwd \o returned.segs

\* A path postProcess returned that lies on another drive than the package
\* folder.
OnOtherDrive(returned) == returned.abs /\ returned.root # "main"

\* C14, as the claim states it: when postProcess returned an object with
\* keys, bin[key] of the package file is, for each returned key, the returned
\* path written relative to the package folder, and every other key of the
\* bin object keeps its value; when it returned an object without keys the
\* bin object is unchanged.
C14_PostProcessMerged ==
  (runs > 0 /\ upc = "idle" /\ uout = "ok")
    => LET returned == ubin.result.entries
           old == atCall.pkg.bin
       IN IF DOMAIN returned = {}
            THEN pkg.bin = old
            ELSE /\ pkg.bin.present
                 /\ DOMAIN pkg.bin.entries = DOMAIN old.entries \cup DOMAIN returned
                 /\ \A key \in DOMAIN returned :
                      /\ ~pkg.bin.entries[key].path.abs
                      /\ pkg.bin.entries[key].dotSlash
                      /\ PointsAt(pkg.bin.entries[key]) = LiesAt(returned[key], ubin.cwd)
                 /\ \A key \in DOMAIN old.entries \ DOMAIN returned :
                      pkg.bin.entries[key] = old.entries[key]

\* C14, amended: as above, but a returned path on another drive than the
\* package folder is written to bin[key] as it is, absolute and without './'.
C14_PostProcessMergedOrAbsolute ==
  (runs > 0 /\ upc = "idle" /\ uout = "ok")
    => LET returned == ubin.result.entries
           old == atCall.pkg.bin
       IN IF DOMAIN returned = {}
            THEN pkg.bin = old
            ELSE /\ pkg.bin.present
                 /\ DOMAIN pkg.bin.entries = DOMAIN old.entries \cup DOMAIN returned
                 /\ \A key \in DOMAIN returned :
                      IF OnOtherDrive(returned[key])
                        THEN pkg.bin.entries[key] =
                               [dotSlash |-> FALSE, path |-> returned[key]]
                        ELSE /\ ~pkg.bin.entries[key].path.abs
                             /\ pkg.bin.entries[key].dotSlash
                             /\ PointsAt(pkg.bin.entries[key])
                                  = LiesAt(returned[key], ubin.cwd)
                 /\ \A key \in DOMAIN old.entries \ DOMAIN returned :
                      pkg.bin.entries[key] = old.entries[key]

\* C14: a run merged a returned relative path into a bin object of two keys.
C14_Witness ==
  /\ upc = "idle"
  /\ uout = "ok"
  /\ DOMAIN atCall.pkg.bin.entries = {"cli", "srv"}
  /\ DOMAIN ubin.result.entries = {"srv"}
  /\ ubin.result.entries["srv"] = RelativePath(0, <<"x">>)
  /\ ubin.cwd = <<"home">>
  /\ pkg.bin.entries["cli"] = OldEntry
  /\ pkg.bin.entries["srv"] =
       [dotSlash |-> TRUE, path |-> RelativePath(1, <<"home", "x">>)]

\* The plugin a call works with was resolved.
PluginResolved ==
  runs > 0 /\ uout \notin {"PackageFileNotFound", "NoRepository", "NoGithubExport"}

\* The callbacks supplied to the call: those of the plugin argument, or, when
\* there is none, those of the plugin module of the package file.
Supplied ==
  IF ugiven.kind # "none" THEN ugiven.has ELSE atCall.pkg.plugin.has

\* C15: each callback of the plugin a call works with is the supplied one
\* when one is supplied and the default plugin's otherwise; a supplied one is
\* never replaced, and without any plugin UpdatePackage calls the default
\* plugin's getSemver.
C15_OverrideResolution ==
  PluginResolved
    => /\ \A c \in Callbacks :
            uplugin[c] = IF c \in Supplied THEN "own" ELSE "default"
       /\ (ufn = "UpdatePackage" /\ semverBy # "none")
            => semverBy = IF "getSemver" \in atCall.pkg.plugin.has
                            THEN "own"
                            ELSE "default"

C15_Witness ==
  /\ PluginResolved
  /\ ufn = "UpdateBinary"
  /\ ugiven = PluginObject({"processBinary"})
  /\ atCall.pkg.plugin = PluginObject({"getSemver"})
  /\ uplugin["processBinary"] = "own"
  /\ uplugin["getSemver"] = "default"
  /\ upc = "awaitProcess"

\* UpdatePackage got a string from a getSemver that is not the default one.
OverrideReturned ==
  ufn = "UpdatePackage" /\ semverBy = "own" /\ latestNPM.ok

\* C16 as claimed: whatever string the getSemver override returns, the call
\* does not fail because of it, and it is the new package version.
C16_NoPostValidation ==
  OverrideReturned
    => /\ uout # "InvalidVersionExpression"
       /\ uop = OperationForce => pkg.version = latestNPM.value

\* C16 as amended: a string that is no valid version expression makes the
\* call fail with "returned an invalid version expression" before anything is
\* written or downloaded; a valid one never does, and it is, exactly as
\* returned, what the package version is set to when the update is made.
C16_OverrideValidated ==
  OverrideReturned
    => IF IsStrictVersion(latestNPM.value)
         THEN /\ uout # "InvalidVersionExpression"
              /\ pkg.version \in {atCall.pkg.version, latestNPM.value}
              /\ uop = OperationForce => pkg.version = latestNPM.value
         ELSE /\ upc = "idle"
              /\ uout = "InvalidVersionExpression"
              /\ Snapshot = atCall
              /\ downloads = 0

C16_Witness ==
  /\ OverrideReturned
  /\ latestNPM.value = <<"1", ".", "1", ".", "1", "+", "v">>
  /\ uop = OperationForce
  /\ atCall.pkg.version = <<"1", ".", "1", ".", "1">>
  /\ pkg.version = <<"1", ".", "1", ".", "1", "+", "v">>
  /\ upc = "idle"
  /\ uout = "ok"

\* The tokens of s between its dots.
RECURSIVE Fields(_)
Fields(s) ==
  LET dot == FirstAt(s, ".", 1)
  IN IF dot > Len(s)
       THEN <<s>>
       ELSE <<SubSeq(s, 1, dot - 1)>> \o Fields(SubSeq(s, dot + 1, Len(s)))

\* The number a string of decimal digits stands for.
RECURSIVE NumberOf(_)
NumberOf(t) ==
  IF t = <<>>
    THEN 0
    ELSE NumberOf(SubSeq(t, 1, Len(t) - 1)) * 10
           + (CHOOSE d \in 0..9 : DigitChars[d + 1] = t[Len(t)])

\* The i-th number of a plain release, 0 when it has fewer.
Component(s, i) ==
  IF i <= Len(Fields(s)) THEN NumberOf(Fields(s)[i]) ELSE 0

\* a is smaller than b in component-wise numeric order.
ComponentLess(a, b) ==
  \E i \in 1..3 :
    /\ Component(a, i) < Component(b, i)
    /\ \A j \in 1..(i - 1) : Component(a, j) = Component(b, j)

ComponentEqual(a, b) == \A i \in 1..3 : Component(a, i) = Component(b, i)

\* C17: for two inputs of one to three dot-separated numbers, a smaller input
\* (component by component, missing components being 0) gives a version of
\* strictly lower precedence, and inputs that are equal in that order give
\* the same version.
C17_PrecedencePreserved ==
  opc = "done"
    => /\ IsStrictVersion(semvers.a)
       /\ IsStrictVersion(semvers.b)
       /\ ComponentLess(pair.a, pair.b) => SemverLt(semvers.a, semvers.b)
       /\ ComponentLess(pair.b, pair.a) => SemverLt(semvers.b, semvers.a)
       /\ ComponentEqual(pair.a, pair.b) => semvers.a = semvers.b

C17_Witness ==
  /\ opc = "done"
  /\ pair.a = <<"2">>
  /\ pair.b = <<"1", "0", ".", "0", "1">>
  /\ semvers.a = <<"2", ".", "0", ".", "0">>
  /\ semvers.b = <<"1", "0", ".", "1", ".", "0">>
  /\ SemverLt(semvers.a, semvers.b)

\* value is an object that holds something (an object or a non-empty
\* string) under key.
Holds(value, key) ==
  /\ value.kind = "object"
  /\ key \in DOMAIN value.props
  /\ value.props[key].kind \in {"object", "string"}
  /\ value.props[key] # JsString(<<>>)

\* The key looked under: the specific one when something is held there,
\* otherwise 'default'.
KeyUsed(value, key) == IF Holds(value, key) THEN key ELSE "default"

\* C18: GetExecutable returns the path stored under executables[label] for
\* the current platform and architecture, taking the entry named 'default'
\* when the platform's entry is missing and again when the architecture's
\* entry is missing, and the empty string when this way leads to no path,
\* also when the platform's entry exists but has neither the architecture
\* nor 'default' while the 'default' platform entry would give a path.
C18_ExecutableLookup ==
  epc = "done"
    => LET label == lookup.executableName
           byLabel == lookup.executables.props[label]
           platformKey == KeyUsed(byLabel, lookup.platform)
           byPlatform == byLabel.props[platformKey]
           archKey == KeyUsed(byPlatform, lookup.arch)
       IN IF /\ Holds(lookup.executables, label)
             /\ Holds(byLabel, platformKey)
             /\ Holds(byPlatform, archKey)
            THEN executablePath = JsString(<<platformKey, archKey>>)
            ELSE executablePath = JsString(<<>>)

\* The platform's entry has no path for the architecture, the 'default'
\* platform entry has one, and the empty string is returned.
C18_Witness ==
  /\ epc = "done"
  /\ lookup.executableName = "exe"
  /\ lookup.platform = "linux"
  /\ lookup.arch = "x64"
  /\ Holds(lookup.executables, "exe")
  /\ Holds(lookup.executables.props["exe"], "linux")
  /\ lookup.executables.props["exe"].props["linux"] = JsObject(<<>>)
  /\ Holds(lookup.executables.props["exe"], "default")
  /\ Holds(lookup.executables.props["exe"].props["default"], "x64")
  /\ executablePath = JsString(<<>>)

\* ParseVersion has given the first getSemver call its sections.
Parsed == round = 1 /\ parseCalls = 1

\* The text ParseVersion gives to ParseSection for the release: the input up
\* to its first '-'.
ReleaseText == SubSeq(input.str, 1, FirstAt(input.str, "-", 1) - 1)

\* A section with '.' in the place of every character that is no digit, no
\* letter, no '-' and no '.'.
Sanitized(s) ==
  [i \in 1..Len(s) |->
     IF s[i] \in Digits \cup Letters \cup {"-", "."} THEN s[i] ELSE "."]

\* The tokens ParseSection splits the release text into.
ReleaseTokens == Fields(Sanitized(ReleaseText))

OnlyDigits(t) == t # <<>> /\ \A i \in 1..Len(t) : t[i] \in Digits

\* C19: ParseSection emits, in input order, integer 0 for an empty token that
\* is not the last, nothing for an empty last token and exactly one part for
\* every other token, so that the number of parts is the number of tokens,
\* less one when the last token is empty.
C19_TokenizerGaps ==
  Parsed
    => LET tokens == ReleaseTokens
           parts == sections.Release
       IN /\ Len(parts) =
               IF tokens[Len(tokens)] = <<>> THEN Len(tokens) - 1 ELSE Len(tokens)
          /\ \A j \in 1..Len(parts) :
               /\ tokens[j] = <<>> => parts[j] = NumPart(0)
               /\ OnlyDigits(tokens[j]) => parts[j] = NumPart(NumberOf(tokens[j]))
               /\ (tokens[j] # <<>> /\ tokens[j][1] \notin Digits)
                    => parts[j] = StrPart(tokens[j])

\* "1.1..1." gives [1, 1, 0, 1]: a gap and an empty last token.
C19_Witness ==
  /\ Parsed
  /\ input = StringValue(<<"1", ".", "1", ".", ".", "1", ".">>)
  /\ sections.Release = <<NumPart(1), NumPart(1), NumPart(0), NumPart(1)>>

\* C20: ParseSection emits an integer for a non-empty token if and only if
\* the token consists of decimal digits only, the integer being its value;
\* every token with a character that is no digit is emitted unchanged as a
\* string.
C20_IntegerTyping ==
  Parsed
    => LET tokens == ReleaseTokens
           parts == sections.Release
       IN \A j \in 1..Min(Len(parts), Len(tokens)) :
            tokens[j] # <<>>
              => parts[j] = IF OnlyDigits(tokens[j])
                              THEN NumPart(NumberOf(tokens[j]))
                              ELSE StrPart(tokens[j])

\* The characters GetSectionString lets through.
SectionAlphabet == Digits \cup Letters \cup {"-", "."}

\* C21: GetSectionString fails exactly for an argument that is no string;
\* what it gives for a string has the string's length, with every digit,
\* letter, '-' and '.' in its place and '.' in the place of every other
\* character, and given to GetSectionString again it comes back unchanged.
C21_SanitizerPointwise ==
  /\ gpc = "failed" => section.type # "string"
  /\ gpc \in {"again", "done"}
       => /\ section.type = "string"
          /\ Len(sectionStrings[1]) = Len(section.str)
          /\ \A i \in 1..Len(section.str) :
               sectionStrings[1][i] =
                 IF section.str[i] \in SectionAlphabet THEN section.str[i] ELSE "."
  /\ gpc = "done" => sectionStrings[2] = sectionStrings[1]

\* "a_Z-" gives "a.Z-", twice.
C21_Witness ==
  /\ gpc = "done"
  /\ section = StringValue(<<"a", "_", "Z", "-">>)
  /\ sectionStrings = << <<"a", ".", "Z", "-">>, <<"a", ".", "Z", "-">> >>

\* The text of the input after its first '-'.
AfterDash == SubSeq(input.str, FirstAt(input.str, "-", 1) + 1, Len(input.str))

\* The part of that text before its first '+', and the part after it.
PrereleaseText == SubSeq(AfterDash, 1, FirstAt(AfterDash, "+", 1) - 1)
BuildText == SubSeq(AfterDash, FirstAt(AfterDash, "+", 1) + 1, Len(AfterDash))

\* C22: ParseVersion tokenizes all text after the first '-' up to the first
\* following '+' into Prerelease and all text after that '+' into
\* BuildMetadata: what follows a second '-' or a second '+' is kept.
C22_LaterTextKept ==
  (Parsed /\ FirstAt(input.str, "-", 1) <= Len(input.str))
    => /\ sections.Prerelease = ParseSection(PrereleaseText)
       /\ sections.BuildMetadata =
            IF FirstAt(AfterDash, "+", 1) <= Len(AfterDash)
              THEN ParseSection(BuildText)
              ELSE <<>>

\* C23: for every input string that is not blank, the Release ParseVersion
\* gives has at least one part.
C23_ReleaseNeverEmpty ==
  (Parsed /\ ~IsBlank(input)) => Len(sections.Release) >= 1

\* The release parts that make the base: the first three, or fewer.
HeadParts(release) == SubSeq(release, 1, Min(3, Len(release)))

\* The three-component base: the first three release parts, 0 standing in for
\* a missing one, when they are integers, and 0.0.0 otherwise.
ThreeComponentBase(release) ==
  IF AllNumbers(HeadParts(release))
    THEN Dotted([i \in 1..3 |->
                   IF i <= Len(release) THEN release[i] ELSE NumPart(0)])
    ELSE <<"0", ".", "0", ".", "0">>

\* The '-' group built from release parts: the parts behind the third when
\* the base is made of the first three, all parts when the base is 0.0.0.
ReleaseGroup(release) ==
  IF ~AllNumbers(HeadParts(release))
    THEN <<"-">> \o Dotted(release)
  ELSE IF Len(release) > 3
    THEN <<"-">> \o Dotted(SubSeq(release, 4, Len(release)))
  ELSE <<>>

\* C24: what getSemver builds from parsed sections is the three-component
\* base, then the '-' group of release parts if there is one, then '-' and
\* the prerelease parts if there are any, then '+' and the build-metadata
\* parts if there are any, and nothing behind them.
C24_GroupOrder ==
  ReturnedParsed
    => result =
         ThreeComponentBase(sections.Release)
           \o ReleaseGroup(sections.Release)
           \o Suffixes(sections)

\* The mode of a call: the operation the caller gave, default when it gave
\* none or something that is no number.
Mode(options) == IF options.isNaN THEN OperationDefault ELSE options.value

\* A mode and an up-to-date condition under which the operation goes on.
GoesOn(mode, upToDate) ==
  mode = OperationForce \/ (mode = OperationDefault /\ ~upToDate)

\* C25: a step in which a call decides whether to update.  UpdatePackage goes
\* on to write the package file exactly when the mode is force, or default
\* with a package version lower than the normalized latest version, and
\* otherwise ends without a change; the binary update (of UpdatePackage that
\* went on, or of UpdateBinary) goes on to the download exactly when the mode
\* is force, or default without bin/<version>, and otherwise ends without
\* touching the bin folder.
C25_UpdateDecision ==
  [][LET mode == Mode(uoptions')
         binaryGoesOn == GoesOn(mode, utag' \in binFolder)
         binarySettled ==
           IF binaryGoesOn
             THEN upc' = "awaitDownload" /\ downloads' = 1
             ELSE /\ upc' = "idle"
                  /\ uout' = "ok"
                  /\ downloads' = 0
                  /\ UNCHANGED <<binFolder, extracted, tempFolders>>
     IN /\ (upc = "awaitLatest" /\ ufn = "UpdatePackage" /\ upc' # "awaitLatest"
              /\ uout' \in {"none", "ok"})
            => IF GoesOn(mode, ~SemverLt(pkg.version, latestNPM'.value))
                 THEN /\ pkg'.version = latestNPM'.value
                      /\ pkg'.packScripts
                      /\ npmIgnore' = "binbak"
                      /\ binarySettled
                 ELSE upc' = "idle" /\ uout' = "ok" /\ UNCHANGED files
        /\ (upc = "awaitLatest" /\ ufn = "UpdateBinary" /\ upc' # "awaitLatest"
              /\ uout' \in {"none", "ok"})
            => binarySettled
        /\ (upc = "idle" /\ runs' = runs + 1 /\ ufn' = "UpdateBinary"
              /\ upc' # "awaitLatest" /\ uout' \in {"none", "ok"})
            => binarySettled
    ]_vars

\* A call without options.operation went on to the download for a package
\* that was behind, as a default call does.
C25_Witness ==
  /\ upc = "awaitDownload"
  /\ ufn = "UpdatePackage"
  /\ uoptions.isNaN
  /\ SemverLt(atCall.pkg.version, pkg.version)
  /\ utag \notin binFolder

\* The step in which the download of the release file has succeeded.
DownloadSucceeds == upc = "awaitDownload" /\ upc' = "awaitProcess"

Location(p) == PathResolve(PkgDir, p)

\* object holds only strings and objects of strings, at every depth.
RECURSIVE OnlyPaths(_)
OnlyPaths(object) ==
  /\ object.kind = "object"
  /\ \A k \in DOMAIN object.props :
       \/ object.props[k].kind = "string"
       \/ OnlyPaths(object.props[k])

\* copy has the keys of object at every depth, and under each key of a path
\* a path of the kind asked for that lies where the path of object lies: the
\* very same string when that already was of the kind asked for.
RECURSIVE IsCopyOf(_, _, _)
IsCopyOf(copy, object, pathKind) ==
  /\ copy.kind = "object"
  /\ DOMAIN copy.props = DOMAIN object.props
  /\ \A k \in DOMAIN object.props :
       IF object.props[k].kind = "string"
         THEN /\ copy.props[k].kind = "string"
              /\ copy.props[k].str.abs = (pathKind = "absolute")
              /\ Location(copy.props[k].str) = Location(object.props[k].str)
              /\ object.props[k].str.abs = (pathKind = "absolute")
                   => copy.props[k] = object.props[k]
         ELSE IsCopyOf(copy.props[k], object.props[k], pathKind)

\* C27: for an object of paths and objects of paths, copyPaths returns an
\* object with the same keys at every depth and every path of the input
\* under its key, converted to the kind asked for or kept as it is.
C27_CopiesAllPaths ==
  (cpc = "done" /\ OnlyPaths(copyArgs.object))
    => /\ copied.ok
       /\ IsCopyOf(copied.value, copyArgs.object, copyArgs.pathKind)

\* C28: a default-mode UpdatePackage run that ends without error and finds
\* the package version equal to the normalized latest version leaves
\* bin/<latest> with the extracted binaries, or has tried to fetch them.
C28_BinariesFetchedAgain ==
  (upc = "idle" /\ ufn = "UpdatePackage" /\ uop = OperationDefault
     /\ uout = "ok" /\ latestNPM.ok /\ pkg.version = latestNPM.value)
    => (utag \in extracted \/ downloads > 0)

\* C29: during and after an UpdatePackage call in default mode the package
\* version is not lower than it was when the call began, and it differs from
\* that one only when that one was strictly lower than the normalized latest
\* version, which it then is.
C29_VersionNeverDecreases ==
  (runs > 0 /\ pkgExists /\ ufn = "UpdatePackage" /\ uop = OperationDefault)
    => /\ ~SemverLt(pkg.version, atCall.pkg.version)
       /\ pkg.version # atCall.pkg.version
            => /\ latestNPM.ok
               /\ SemverLt(atCall.pkg.version, latestNPM.value)
               /\ pkg.version = latestNPM.value

\* The second default-mode run took the package from 1.1.1-1 to 1.1.1.
C29_Witness ==
  /\ runs = 2
  /\ upc = "idle"
  /\ ufn = "UpdatePackage"
  /\ uop = OperationDefault
  /\ atCall.pkg.version = <<"1", ".", "1", ".", "1", "-", "1">>
  /\ pkg.version = <<"1", ".", "1", ".", "1">>

\* C30: what getSemver gives for "a.b.c.d" is "a.b.c-d" (the numbers written
\* without leading zeros) and is strictly lower in precedence than what it
\* gives for "a.b.c"; a default-mode UpdatePackage with the latter as the
\* package version finds the package up to date.
C30_ExtraPartOrdersBelow ==
  /\ opc \in {"done", "uptodate", "update"}
       => /\ semvers.b = semvers.a \o <<"-">> \o NatToStr(NumberOf(Fields(pair.b)[4]))
          /\ SemverLt(semvers.b, semvers.a)
          /\ ~SemverLt(semvers.a, semvers.b)
  /\ opc # "update"

\* "1.10.01" and "1.10.01.2" give 1.10.1 and 1.10.1-2: no update.
C30_Witness ==
  /\ opc = "uptodate"
  /\ pair.a = <<"1", ".", "1", "0", ".", "0", "1">>
  /\ pair.b = <<"1", ".", "1", "0", ".", "0", "1", ".", "2">>
  /\ semvers.a = <<"1", ".", "1", "0", ".", "1">>
  /\ semvers.b = <<"1", ".", "1", "0", ".", "1", "-", "2">>

====
